---------------------------- MODULE Spec2Model ----------------------------
(***************************************************************************)
(* A model of notdienst_finder: the Pharmacy record with its lazily cached *)
(* geocode data (pharmacy.py), the geocode candidate selection (osm.py),   *)
(* and the listing path with its date rule (lakbb.py).                     *)
(*                                                                         *)
(* Python values are represented as follows.                               *)
(*   - None is the empty tuple and a present optional value x is <<x>>.    *)
(*   - A text whose characters the code inspects (street, town, road,      *)
(*     city, house number, state name) is a sequence of one-character      *)
(*     strings; a text the code only stores is a TLA+ string.              *)
(*   - A dict is a function on the set of its keys.                        *)
(***************************************************************************)
EXTENDS Integers, Sequences, FiniteSets, TLC

VARIABLES rec, lastCall, lastCached, osm, adj, parse, call

vars == <<rec, lastCall, lastCached, osm, adj, parse, call>>

(***************************************************************************)
(* Bounds of the model.                                                    *)
(***************************************************************************)
\* the longest candidate list the geocoding source answers with
MaxCandidates == 2
\* the same, in the steps of a record: they depend on a reply only through the
\* candidate request_osm_data selects from it
MaxRecordCandidates == 1
\* the timestamps tried reach this many half hours past each local midnight
MaxHalfHours == 20
\* the most elements of a parsed document, and of a fetched one
MaxRows == 3
MaxFetchedRows == 2
\* the largest limit asked for
MaxLimit == 3

None == <<>>
Some(x) == <<x>>
Val(o) == o[1]

\* value of a variable that the specification at hand does not use
Idle == [phase |-> "idle"]

(***************************************************************************)
(* Texts.                                                                  *)
(***************************************************************************)
\* Python's  sub in s  for str
Contains(sub, s) ==
    \E i \in 1..(Len(s) + 1) :
        /\ i + Len(sub) - 1 <= Len(s)
        /\ SubSeq(s, i, i + Len(sub) - 1) = sub

\* dict.get(key)
Get(d, k) == IF k \in DOMAIN d THEN Some(d[k]) ELSE None

(***************************************************************************)
(* pharmacy.py: the Pharmacy record.                                       *)
(***************************************************************************)
Pharmacy(name, street, town, state, phone, fax, web, mail, gmaps) ==
    [name |-> name, street |-> street, town |-> town, state |-> state,
     phone |-> phone, fax |-> fax, web |-> web, mail |-> mail, gmaps |-> gmaps,
     _latitude |-> None, _longitude |-> None, _osm_address |-> None,
     _Pharmacy__osm_data |-> None]

\* Python truthiness of the cached response: None is false (and so is an
\* empty dict)
Truthy(o) == o /= None /\ DOMAIN Val(o) /= {}

(***************************************************************************)
(* The geocoding source.  A candidate exposes lat, lon and display_name    *)
(* and a nested address whose sub-fields are each optional.                *)
(***************************************************************************)
Geo(k) ==
    IF k = 1 THEN [lat |-> "52.40", lon |-> "13.06", display_name |-> "first place"]
             ELSE [lat |-> "52.52", lon |-> "13.40", display_name |-> "second place"]

Place(k, a) == Geo(k) @@ [address |-> a]

Addresses ==
    { [road |-> <<"a", "b">>, city |-> <<"x", "y">>],
      [road |-> <<"a">>, city |-> <<"x">>, house_number |-> <<"7">>,
       town |-> <<"x">>, state |-> "Berlin"],
      [road |-> <<"c">>, city |-> <<"x">>],
      [road |-> <<"a", "b">>, town |-> <<"z">>],
      [city |-> <<"x">>, state |-> "Berlin"],
      [road |-> <<"b">>, city |-> <<"y">>, house_number |-> <<"7">>] }

Places ==
    {Place(1, a) : a \in Addresses}
        \cup {Place(2, [road |-> <<"a", "b">>, city |-> <<"x", "y">>]), Geo(2)}

CandidateListsUpTo(max) == UNION {[1..n -> Places] : n \in 0..max}

\* what a geocode query meets: a timeout, another RequestException (transport
\* error, non-success status) or a JSON array of candidates
RepliesUpTo(max) ==
    {[kind |-> "timeout"], [kind |-> "error"]}
        \cup {[kind |-> "ok", data |-> d] : d \in CandidateListsUpTo(max)}

Replies == RepliesUpTo(MaxCandidates)
RecordReplies == RepliesUpTo(MaxRecordCandidates)

\* stands for the reply of a call that sends no query
NoReply == [kind |-> "unasked"]

Streets == {<<"a">>, <<"b">>}
Towns == {<<"x">>, <<"y">>}

(***************************************************************************)
(* osm.py: request_osm_data.                                               *)
(***************************************************************************)
ExactMatchByEquality(pharmacy, place) ==
    /\ "address" \in DOMAIN place
    /\ "road" \in DOMAIN place.address
    /\ "city" \in DOMAIN place.address
    /\ pharmacy.street = place.address.road
    /\ pharmacy.town = place.address.city

\* the test of lines 34-35
ExactMatch(pharmacy, place) ==
    /\ "address" \in DOMAIN place
    /\ "road" \in DOMAIN place.address
    /\ "city" \in DOMAIN place.address
    /\ Contains(pharmacy.street, place.address.road)
    /\ Contains(pharmacy.town, place.address.city)

\* the loop of lines 33-36 from index i on, then the fallback of line 39
RECURSIVE ScanPlaces(_, _, _)
ScanPlaces(pharmacy, data, i) ==
    IF i > Len(data) THEN Some(data[1])
    ELSE IF ExactMatch(pharmacy, data[i]) THEN Some(data[i])
    ELSE ScanPlaces(pharmacy, data, i + 1)

\* lines 12-46; the query text of lines 15-19 goes to the geocoding source,
\* whose reply is any of Replies whatever the text
request_osm_data(pharmacy, reply) ==
    IF reply.kind /= "ok" THEN None          \* lines 41-46
    ELSE IF reply.data = <<>> THEN None      \* lines 28-30
    ELSE ScanPlaces(pharmacy, reply.data, 1)

(***************************************************************************)
(* pharmacy.py: update_with_osm and the latitude / longitude properties.   *)
(***************************************************************************)
\* line 57
ShouldQuery(self, overwrite_cache) ==
    self._Pharmacy__osm_data = None \/ overwrite_cache

SetCoordinatesOnly(self) ==
    LET d == Val(self._Pharmacy__osm_data)
    IN  [self EXCEPT !._latitude = Get(d, "lat"), !._longitude = Get(d, "lon")]

\* lines 61-63
SetGeocodeFields(self) ==
    LET d == Val(self._Pharmacy__osm_data)
    IN  [self EXCEPT !._latitude = Get(d, "lat"),
                     !._longitude = Get(d, "lon"),
                     !._osm_address = Get(d, "display_name")]

\* lines 66-74; the subscripts of line 66 raise KeyError when the candidate
\* has no address or no road, before anything is assigned
FixData(self) ==
    LET d == Val(self._Pharmacy__osm_data)
    IN  IF "address" \notin DOMAIN d \/ "road" \notin DOMAIN d.address
        THEN [self |-> self, raised |-> "KeyError"]
        ELSE LET a == d.address
                 street == IF "house_number" \in DOMAIN a
                           THEN a.road \o <<" ">> \o a.house_number
                           ELSE a.road
                 town == IF "town" \in DOMAIN a THEN a.town ELSE self.town
                 state == IF "state" \in DOMAIN a THEN Some(a.state) ELSE self.state
             IN  [self |-> [self EXCEPT !.street = street, !.town = town,
                                        !.state = state],
                  raised |-> "none"]

\* the whole method; reply is what the geocoding source answers if asked
update_with_osm(self, overwrite_cache, fix_data, reply) ==
    LET queried == ShouldQuery(self, overwrite_cache)
        s1 == IF queried
              THEN [self EXCEPT !._Pharmacy__osm_data = request_osm_data(self, reply)]
              ELSE self
        s2 == IF Truthy(s1._Pharmacy__osm_data) THEN SetGeocodeFields(s1) ELSE s1
        s3 == IF Truthy(s2._Pharmacy__osm_data) /\ fix_data
              THEN FixData(s2)
              ELSE [self |-> s2, raised |-> "none"]
    IN  [self |-> s3.self, raised |-> s3.raised, queried |-> queried]

latitudeAlwaysRefetch(self, reply) ==
    LET u == update_with_osm(self, TRUE, FALSE, reply)
    IN  [self |-> u.self, ret |-> u.self._latitude, queried |-> u.queried]

\* lines 76-86
latitude(self, reply) ==
    IF self._latitude = None
    THEN LET u == update_with_osm(self, FALSE, FALSE, reply)
         IN  [self |-> u.self, ret |-> u.self._latitude, queried |-> u.queried]
    ELSE [self |-> self, ret |-> self._latitude, queried |-> FALSE]

\* lines 88-98
longitude(self, reply) ==
    IF self._longitude = None
    THEN LET u == update_with_osm(self, FALSE, FALSE, reply)
         IN  [self |-> u.self, ret |-> u.self._longitude, queried |-> u.queried]
    ELSE [self |-> self, ret |-> self._longitude, queried |-> FALSE]

(***************************************************************************)
(* pharmacy.py: to_dict and from_dict.                                     *)
(***************************************************************************)
to_dict(self) ==
    [name |-> self.name, street |-> self.street, town |-> self.town,
     state |-> self.state, phone |-> self.phone, fax |-> self.fax,
     web |-> self.web, mail |-> self.mail, gmaps |-> self.gmaps,
     latitude |-> self._latitude, longitude |-> self._longitude,
     osm_address |-> self._osm_address,
     osm_data |-> self._Pharmacy__osm_data]

\* dict.get(key) on a dict whose values are themselves optional
GetOpt(d, k) == IF k \in DOMAIN d THEN d[k] ELSE None

\* a from_dict that binds the cache under a name the methods do not read
from_dict_unread_cache(data) ==
    [Pharmacy(data.name, data.street, data.town, GetOpt(data, "state"),
              GetOpt(data, "phone"), GetOpt(data, "fax"), GetOpt(data, "web"),
              GetOpt(data, "mail"), GetOpt(data, "gmaps"))
        EXCEPT !._latitude = GetOpt(data, "latitude"),
               !._longitude = GetOpt(data, "longitude"),
               !._osm_address = GetOpt(data, "osm_address")]

\* lines 131-150; pharm.__osm_data in the class body is the attribute
\* _Pharmacy__osm_data, the one update_with_osm and to_dict use
from_dict(data) ==
    [Pharmacy(data.name, data.street, data.town, GetOpt(data, "state"),
              GetOpt(data, "phone"), GetOpt(data, "fax"), GetOpt(data, "web"),
              GetOpt(data, "mail"), GetOpt(data, "gmaps"))
        EXCEPT !._latitude = GetOpt(data, "latitude"),
               !._longitude = GetOpt(data, "longitude"),
               !._osm_address = GetOpt(data, "osm_address"),
               !._Pharmacy__osm_data = GetOpt(data, "osm_data")]

(***************************************************************************)
(* One Pharmacy record under latitude and longitude reads, update_with_osm *)
(* calls and to_dict / from_dict round trips.  lastCall describes the step *)
(* just taken; lastCached is the last response stored as the cache.        *)
(***************************************************************************)
\* the records extract_pharmacy_details builds (state "Brandenburg") and the
\* placeholder records of the listing path (no state)
InitialRecords ==
    {Pharmacy("Engel-Apotheke", street, town, Some("Brandenburg"),
              Some("030 123456"), None, None, None, gmaps) :
        street \in Streets, town \in Towns, gmaps \in {None}}
    \cup {Pharmacy("Keine Notdienst-Apotheken gefunden", <<"N", "/", "A">>,
                   <<"N", "/", "A">>, None, None, None, None, None, None)}

QueryOutcome(queried, reply) ==
    IF ~queried THEN "none"
    ELSE IF reply.kind = "ok" /\ reply.data /= <<>> THEN "answered"
    ELSE "failed"

Cached(self) == self._Pharmacy__osm_data /= None

Remember(self) ==
    IF Cached(self) THEN self._Pharmacy__osm_data ELSE lastCached

InitRecord ==
    /\ rec \in InitialRecords
    /\ lastCall = [op |-> "init", overwrite_cache |-> FALSE, fix_data |-> FALSE,
                   query |-> "none", hadCache |-> FALSE, hadGeo |-> FALSE,
                   everCached |-> FALSE, ret |-> None, raised |-> "none"]
    /\ lastCached = None
    /\ osm = Idle /\ adj = Idle /\ parse = Idle /\ call = Idle

\* the replies a call can meet: a call that sends no query meets none
Meets(queried) == IF queried THEN RecordReplies ELSE {NoReply}

ReadLatitude ==
    \E reply \in Meets(latitude(rec, NoReply).queried) :
        LET r == latitude(rec, reply)
        IN  /\ rec' = r.self
            /\ lastCall' = [op |-> "latitude", overwrite_cache |-> FALSE,
                            fix_data |-> FALSE,
                            query |-> QueryOutcome(r.queried, reply),
                            hadCache |-> Cached(rec),
                            hadGeo |-> rec._latitude /= None,
                            everCached |-> lastCached /= None,
                            ret |-> r.ret, raised |-> "none"]
            /\ lastCached' = Remember(r.self)
            /\ UNCHANGED <<osm, adj, parse, call>>

ReadLongitude ==
    \E reply \in Meets(longitude(rec, NoReply).queried) :
        LET r == longitude(rec, reply)
        IN  /\ rec' = r.self
            /\ lastCall' = [op |-> "longitude", overwrite_cache |-> FALSE,
                            fix_data |-> FALSE,
                            query |-> QueryOutcome(r.queried, reply),
                            hadCache |-> Cached(rec),
                            hadGeo |-> rec._latitude /= None,
                            everCached |-> lastCached /= None,
                            ret |-> r.ret, raised |-> "none"]
            /\ lastCached' = Remember(r.self)
            /\ UNCHANGED <<osm, adj, parse, call>>

UpdateWithOsm ==
    \E overwrite_cache \in BOOLEAN, fix_data \in BOOLEAN :
      \E reply \in Meets(ShouldQuery(rec, overwrite_cache)) :
        LET u == update_with_osm(rec, overwrite_cache, fix_data, reply)
        IN  /\ rec' = u.self
            /\ lastCall' = [op |-> "update_with_osm",
                            overwrite_cache |-> overwrite_cache,
                            fix_data |-> fix_data,
                            query |-> QueryOutcome(u.queried, reply),
                            hadCache |-> Cached(rec),
                            hadGeo |-> rec._latitude /= None,
                            everCached |-> lastCached /= None,
                            ret |-> None, raised |-> u.raised]
            /\ lastCached' = Remember(u.self)
            /\ UNCHANGED <<osm, adj, parse, call>>

\* the record is persisted with to_dict and replaced by its reconstruction
RoundTrip ==
    /\ rec' = from_dict(to_dict(rec))
    /\ lastCall' = [op |-> "from_dict", overwrite_cache |-> FALSE,
                    fix_data |-> FALSE, query |-> "none",
                    hadCache |-> Cached(rec), hadGeo |-> rec._latitude /= None,
                    everCached |-> lastCached /= None,
                    ret |-> None, raised |-> "none"]
    /\ lastCached' = lastCached
    /\ UNCHANGED <<osm, adj, parse, call>>

NextRecord == ReadLatitude \/ ReadLongitude \/ UpdateWithOsm \/ RoundTrip

SpecRecord == InitRecord /\ [][NextRecord]_vars

IsSet(field) == field /= None

C7_FailedQueryLeavesRecord ==
    [][lastCall'.query = "failed" => rec' = rec]_vars

\* C9: to_dict, from_dict, to_dict gives the dict of the first to_dict, with
\* its 13 keys, for every record reached, bare or enriched, and the
\* reconstructed record holds the cached response in the attribute its
\* methods read.
C9_RoundTrip ==
    LET data == to_dict(rec)
        again == from_dict(data)
    IN  /\ DOMAIN data = {"name", "street", "town", "state", "phone", "fax",
                          "web", "mail", "gmaps", "latitude", "longitude",
                          "osm_address", "osm_data"}
        /\ to_dict(again) = data
        /\ again._Pharmacy__osm_data = rec._Pharmacy__osm_data
        /\ again = rec

C9_EnrichedRoundTrip ==
    /\ lastCall.op = "from_dict"
    /\ Cached(rec)
    /\ IsSet(rec._latitude)
    /\ to_dict(rec).osm_data = rec._Pharmacy__osm_data

LatOf(cache) == IF cache = None THEN None ELSE Get(Val(cache), "lat")
LonOf(cache) == IF cache = None THEN None ELSE Get(Val(cache), "lon")

InitOsm ==
    /\ osm \in {[phase |-> "asked", street |-> street, town |-> town,
                 reply |-> reply, result |-> None] :
                    street \in Streets \cup {<<"a", " ", "7">>},
                    town \in Towns, reply \in Replies}
    /\ rec = Idle /\ lastCall = Idle /\ lastCached = Idle
    /\ adj = Idle /\ parse = Idle /\ call = Idle

RequestOsmData ==
    /\ osm.phase = "asked"
    /\ osm' = [osm EXCEPT
                 !.phase = "done",
                 !.result = request_osm_data(
                     Pharmacy("Engel-Apotheke", osm.street, osm.town,
                              Some("Brandenburg"), None, None, None, None, None),
                     osm.reply)]
    /\ UNCHANGED <<rec, lastCall, lastCached, adj, parse, call>>

NextOsm == RequestOsmData

SpecOsm == InitOsm /\ [][NextOsm]_vars

\* the places of data whose address has a road holding the street and a city
\* holding the town
MatchingPlaces(street, town, data) ==
    {i \in 1..Len(data) :
        /\ "address" \in DOMAIN data[i]
        /\ {"road", "city"} \subseteq DOMAIN data[i].address
        /\ Contains(street, data[i].address.road)
        /\ Contains(town, data[i].address.city)}

\* C8: for a non-empty candidate list request_osm_data returns the first
\* candidate whose road holds the record's street and whose city holds its
\* town, else the first candidate; for an empty list, or a failed query, it
\* returns no match.
C8_CandidateSelection ==
    osm.phase = "done" =>
        IF osm.reply.kind /= "ok" THEN osm.result = None
        ELSE LET data == osm.reply.data
                 m == MatchingPlaces(osm.street, osm.town, data)
             IN  /\ data = <<>> => osm.result = None
                 /\ data /= <<>> /\ m /= {} =>
                       \E i \in m : /\ \A j \in m : i <= j
                                    /\ osm.result = Some(data[i])
                 /\ data /= <<>> /\ m = {} => osm.result = Some(data[1])

C8_LaterCandidateSelected ==
    /\ osm.phase = "done"
    /\ osm.reply.kind = "ok"
    /\ Len(osm.reply.data) >= 2
    /\ 1 \notin MatchingPlaces(osm.street, osm.town, osm.reply.data)
    /\ 2 \in MatchingPlaces(osm.street, osm.town, osm.reply.data)
    /\ osm.reply.data[2] /= osm.reply.data[1]
    /\ osm.result = Some(osm.reply.data[2])

(***************************************************************************)
(* lakbb.py: adjust_date.  Timestamps are seconds since the epoch; local   *)
(* time is that of Europe/Berlin in 2024 (CET, and CEST between the two    *)
(* transitions), as datetime.fromtimestamp reads it from the system.       *)
(***************************************************************************)
DaySeconds == 86400

\* 2024-03-31 01:00 UTC and 2024-10-27 01:00 UTC
SpringForward == 1711846800
FallBack == 1729990800

UtcOffset(ts) == IF SpringForward <= ts /\ ts < FallBack THEN 7200 ELSE 3600

\* datetime.fromtimestamp(ts): the naive local date (as a day number) and
\* time of day
fromtimestamp(ts) ==
    [day |-> (ts + UtcOffset(ts)) \div 86400, sec |-> (ts + UtcOffset(ts)) % 86400]

\* the proleptic Gregorian date of a day number (days since 1970-01-01)
CivilFromDays(z) ==
    LET s == z + 719468
        era == s \div 146097
        doe == s - era * 146097
        yoe == (doe - doe \div 1460 + doe \div 36524 - doe \div 146096) \div 365
        doy == doe - (365 * yoe + yoe \div 4 - yoe \div 100)
        mp == (5 * doy + 2) \div 153
        m == IF mp < 10 THEN mp + 3 ELSE mp - 9
    IN  [y |-> yoe + era * 400 + (IF m <= 2 THEN 1 ELSE 0),
         m |-> m,
         d |-> doy - (153 * mp + 2) \div 5 + 1]

Digit(n) == <<"0", "1", "2", "3", "4", "5", "6", "7", "8", "9">>[n + 1]

\* strftime("%d.%m.%Y")
strftime(dt) ==
    LET c == CivilFromDays(dt.day)
    IN  <<Digit(c.d \div 10), Digit(c.d % 10), ".",
          Digit(c.m \div 10), Digit(c.m % 10), ".",
          Digit(c.y \div 1000), Digit((c.y \div 100) % 10),
          Digit((c.y \div 10) % 10), Digit(c.y % 10)>>

\* datetime < datetime
Earlier(a, b) == a.day < b.day \/ (a.day = b.day /\ a.sec < b.sec)

\* the argument of adjust_date: None, an int or, from pharmacy.py, a datetime
NoDate == [type |-> "NoneType"]
IntDate(ts) == [type |-> "int", value |-> ts]
DatetimeDate(ts) == [type |-> "datetime", value |-> ts]

\* lines 30-41; now is what time.time() returns if asked.  fromtimestamp
\* raises TypeError for an argument that is no number
adjust_date(date, morning_change, now) ==
    LET ts == IF date.type = "NoneType" THEN now ELSE date.value
    IN  IF date.type = "datetime"
        THEN [raised |-> "TypeError", value |-> None]
        ELSE LET today_8am == [fromtimestamp(ts) EXCEPT !.sec = 8 * 3600]
                 shifted == IF morning_change /\ Earlier(fromtimestamp(ts), today_8am)
                            THEN ts - DaySeconds
                            ELSE ts
             IN  [raised |-> "none", value |-> Some(strftime(fromtimestamp(shifted)))]

\* the timestamp of local midnight of a day, given the offset in force then
LocalMidnight(day, offset) == day * 86400 - offset

\* 2024-03-01, 2024-03-31, 2024-04-01, 2024-06-15, 2024-10-27, 2024-10-28
\* and 2025-01-01
Midnights ==
    {LocalMidnight(19783, 3600), LocalMidnight(19813, 3600),
     LocalMidnight(19814, 7200), LocalMidnight(19889, 7200),
     LocalMidnight(20023, 7200), LocalMidnight(20024, 3600),
     LocalMidnight(20089, 3600)}

Timestamps ==
    {t + k * 1800 + d : t \in Midnights, k \in 0..MaxHalfHours, d \in {-1, 0, 1}}

InitDate ==
    /\ adj \in {[phase |-> "called", date |-> date, morning_change |-> mc,
                 now |-> 0, result |-> None] :
                    date \in {NoDate} \cup {IntDate(ts) : ts \in Timestamps},
                    mc \in BOOLEAN}
    /\ rec = Idle /\ lastCall = Idle /\ lastCached = Idle
    /\ osm = Idle /\ parse = Idle /\ call = Idle

AdjustDate ==
    /\ adj.phase = "called"
    /\ \E now \in IF adj.date.type = "NoneType" THEN Timestamps ELSE {0} :
          adj' = [adj EXCEPT
                    !.phase = "done", !.now = now,
                    !.result = adjust_date(adj.date, adj.morning_change, now)]
    /\ UNCHANGED <<rec, lastCall, lastCached, osm, parse, call>>

NextDate == AdjustDate

SpecDate == InitDate /\ [][NextDate]_vars

\* the timestamp a finished adjust_date call worked on
Given == IF adj.date.type = "NoneType" THEN adj.now ELSE adj.date.value

LocalDay(ts) == (ts + UtcOffset(ts)) \div 86400
LocalSecond(ts) == (ts + UtcOffset(ts)) % 86400

\* C3: with morning_change, adjust_date returns the date of the calendar day
\* before T's local date when T's local time of day is before 08:00:00 and
\* T's own local date from 08:00:00 on; without it, always T's own local
\* date; for every T, days on which the UTC offset changes included.
C3_AdjustDate ==
    adj.phase = "done" =>
        /\ adj.result.raised = "none"
        /\ adj.result.value =
              Some(strftime([day |-> IF adj.morning_change
                                        /\ LocalSecond(Given) < 8 * 3600
                                     THEN LocalDay(Given) - 1
                                     ELSE LocalDay(Given),
                             sec |-> 0]))

(***************************************************************************)
(* lakbb.py: parse_pharmacies and extract_pharmacy_details.  A document is *)
(* the sequence of its elements in document order; the empty sequence is   *)
(* the empty string.  A tr element carries what the code reads of it: the  *)
(* number of its td cells, the text of the b tag of cell 1 if any, the     *)
(* parts of cell 1 between <br/> markers, the groups the four patterns     *)
(* capture in cell 2, and whether cell 3 holds an anchor titled            *)
(* "Anfahrtsplan bei Google Maps", with or without an href.                *)
(***************************************************************************)
Unbekannt == <<"U", "n", "b", "e", "k", "a", "n", "n", "t">>

RECURSIVE LStrip(_)
LStrip(s) == IF s /= <<>> /\ Head(s) = " " THEN LStrip(Tail(s)) ELSE s

RECURSIVE RStrip(_)
RStrip(s) ==
    IF s /= <<>> /\ s[Len(s)] = " " THEN RStrip(SubSeq(s, 1, Len(s) - 1)) ELSE s

\* str.strip()
Strip(s) == RStrip(LStrip(s))

\* s.replace(c, "")
Remove(s, c) == SelectSeq(s, LAMBDA x : x /= c)

\* re.sub(r'\s+', ' ', s)
RECURSIVE CollapseSpaces(_)
CollapseSpaces(s) ==
    IF Len(s) < 2 THEN s
    ELSE IF s[1] = " " /\ s[2] = " " THEN CollapseSpaces(Tail(s))
    ELSE <<s[1]>> \o CollapseSpaces(Tail(s))

\* lines 106-110, given the group the pattern captures, if it matches
extract_match(group) == IF group = None THEN None ELSE Some(Strip(Val(group)))

\* lines 95-98
NormalizeNumber(number) ==
    IF number = None \/ Val(number) = <<>> THEN number
    ELSE Some(CollapseSpaces(Strip(Remove(Remove(Val(number), "/"), "-"))))

\* lines 75-104; maps_tag["href"] raises KeyError for an anchor without href
extract_pharmacy_details(row) ==
    LET name == IF row.bold = None THEN "Unbekannt" ELSE Val(row.bold)
        street == IF Len(row.lines) > 1 THEN Strip(row.lines[2]) ELSE Unbekannt
        town == IF Len(row.lines) > 2 THEN Strip(row.lines[3]) ELSE Unbekannt
        phone == NormalizeNumber(extract_match(row.cell2.tel))
        fax == NormalizeNumber(extract_match(row.cell2.fax))
        web == extract_match(row.cell2.homepage)
        mail == extract_match(row.cell2.mailto)
    IN  IF row.maps = "nohref"
        THEN [raised |-> "KeyError", value |-> None]
        ELSE [raised |-> "none",
              value |-> Some(Pharmacy(name, street, town, Some("Brandenburg"),
                                      phone, fax, web, mail,
                                      IF row.maps = "href"
                                      THEN Some("https://maps.example/route")
                                      ELSE None))]

NoContact == [tel |-> None, fax |-> None, homepage |-> None, mailto |-> None]

Elements ==
    { [tag |-> "tr", in_table |-> TRUE, tds |-> 3,
       bold |-> Some("Engel-Apotheke"),
       lines |-> <<<<"*">>, <<" ", "a">>, <<"x", " ">>>>,
       cell2 |-> [NoContact EXCEPT
                    !.tel = Some(<<"0", "3", "0", " ", "/", " ", "1", "2", " ">>)],
       maps |-> "href"],
      [tag |-> "tr", in_table |-> TRUE, tds |-> 3,
       bold |-> Some("Adler-Apotheke"),
       lines |-> <<<<"*">>, <<"b">>, <<"y">>>>,
       cell2 |-> NoContact, maps |-> "none"],
      [tag |-> "tr", in_table |-> TRUE, tds |-> 4,
       bold |-> None, lines |-> <<<<"*">>>>,
       cell2 |-> [NoContact EXCEPT !.fax = Some(<<"0", "3", "/", "/", "9">>)],
       maps |-> "href"],
      [tag |-> "tr", in_table |-> TRUE, tds |-> 3,
       bold |-> Some("Rathaus-Apotheke"),
       lines |-> <<<<"*">>, <<"b">>>>,
       cell2 |-> NoContact, maps |-> "nohref"],
      [tag |-> "tr", in_table |-> TRUE, tds |-> 2,
       bold |-> Some("Apotheke"), lines |-> <<<<"*">>>>,
       cell2 |-> NoContact, maps |-> "none"],
      [tag |-> "tr", in_table |-> FALSE, tds |-> 3,
       bold |-> Some("Stern-Apotheke"),
       lines |-> <<<<"*">>, <<"a">>, <<"y">>>>,
       cell2 |-> NoContact, maps |-> "href"],
      [tag |-> "p"] }

DocumentsUpTo(max) == UNION {[1..n -> Elements] : n \in 0..max}

\* soup.select("table tr")
SelectTableRows(html) == SelectSeq(html, LAMBDA e : e.tag = "tr" /\ e.in_table)

\* the loop of lines 65-71 from row i on, pharmacies being the list so far
RECURSIVE ParseRows(_, _, _, _)
ParseRows(rows, i, limit, pharmacies) ==
    IF i > Len(rows) THEN [raised |-> "none", value |-> pharmacies]
    ELSE IF rows[i].tds < 3 \/ Len(pharmacies) >= limit
         THEN ParseRows(rows, i + 1, limit, pharmacies)
    ELSE LET pharmacy == extract_pharmacy_details(rows[i])
         IN  IF pharmacy.raised /= "none"
             THEN [raised |-> pharmacy.raised, value |-> <<>>]
             ELSE ParseRows(rows, i + 1, limit,
                            Append(pharmacies, Val(pharmacy.value)))

\* lines 59-73
parse_pharmacies(html, limit) == ParseRows(SelectTableRows(html), 1, limit, <<>>)

InitParse ==
    /\ parse \in {[phase |-> "called", html |-> html, limit |-> limit,
                   result |-> None] :
                     html \in DocumentsUpTo(MaxRows), limit \in 0..MaxLimit}
    /\ rec = Idle /\ lastCall = Idle /\ lastCached = Idle
    /\ osm = Idle /\ adj = Idle /\ call = Idle

ParsePharmacies ==
    /\ parse.phase = "called"
    /\ parse' = [parse EXCEPT
                   !.phase = "done",
                   !.result = parse_pharmacies(parse.html, parse.limit)]
    /\ UNCHANGED <<rec, lastCall, lastCached, osm, adj, call>>

NextParse == ParsePharmacies

SpecParse == InitParse /\ [][NextParse]_vars

\* a row qualifies iff it is a row of a table with at least 3 td cells
Qualifies(e) == e.tag = "tr" /\ e.in_table /\ e.tds >= 3

QualifyingRows(html) == SelectSeq(html, Qualifies)

Min(a, b) == IF a <= b THEN a ELSE b

\* C5: for every document and limit >= 0, parse_pharmacies returns exactly
\* min(limit, number of qualifying rows) records, the i-th built from the
\* i-th qualifying row in document order.
C5_FirstQualifyingRows ==
    parse.phase = "done" =>
        LET q == QualifyingRows(parse.html)
            n == Min(parse.limit, Len(q))
        IN  /\ parse.result.raised = "none"
            /\ Len(parse.result.value) = n
            /\ \A i \in 1..n :
                  Some(parse.result.value[i]) = extract_pharmacy_details(q[i]).value

(***************************************************************************)
(* lakbb.py and pharmacy.py: the two get_emergency_pharmacies.             *)
(***************************************************************************)
NotAvailable ==
    <<"N", "/", "A">>

DataNotFetched ==
    <<"D", "a", "t", "e", "n", " ", "k", "o", "n", "n", "t", "e",
      "n", " ", "n", "i", "c", "h", "t", " ", "a", "b", "g", "e",
      "r", "u", "f", "e", "n", " ", "w", "e", "r", "d", "e", "n",
      ".">>

\* the record of line 25
Unavailable ==
    Pharmacy("Notdienst nicht verfügbar", NotAvailable, DataNotFetched,
             None, None, None, None, None, None)

\* the record of line 28
NoResults ==
    Pharmacy("Keine Notdienst-Apotheken gefunden", NotAvailable, NotAvailable,
             None, None, None, None, None, None)

\* what the GET of the listing URL meets: a RequestException (transport
\* error, non-success status) or a body
Fetches ==
    {[kind |-> "RequestException"]}
        \cup {[kind |-> "ok", body |-> html] : html \in DocumentsUpTo(MaxFetchedRows)}

\* stands for the fetch of a call that does not come to fetch
NoFetch == [kind |-> "unasked"]

\* lines 43-57; the body is handed on as decoded (lines 51-54 only change
\* bytes that are not UTF-8)
fetch_html(fetch) == IF fetch.kind = "ok" THEN Some(fetch.body) ELSE None

\* the outcome of a call: the exception raised, if any, with the state its
\* message names; else the list returned; and the URLs fetched on the way
Raised(exception, names, requests) ==
    [raised |-> exception, names |-> names, returned |-> FALSE,
     value |-> <<>>, requests |-> requests]

Returned(value, requests) ==
    [raised |-> "none", names |-> None, returned |-> TRUE,
     value |-> value, requests |-> requests]

\* lakbb.py, lines 17-28
lakbb_get_emergency_pharmacies(plz, date, limit, morning_change, now, fetch) ==
    LET adjusted == adjust_date(date, morning_change, now)
    IN  IF adjusted.raised /= "none" THEN Raised(adjusted.raised, None, <<>>)
        ELSE LET url == [suchbegriff |-> plz, datum |-> Val(adjusted.value)]
                 html == fetch_html(fetch)
             IN  IF html = None \/ Val(html) = <<>>
                 THEN Returned(<<Unavailable>>, <<url>>)
                 ELSE LET pharmacies == parse_pharmacies(Val(html), limit)
                      IN  IF pharmacies.raised /= "none"
                          THEN Raised(pharmacies.raised, None, <<url>>)
                          ELSE Returned(IF pharmacies.value /= <<>>
                                        THEN pharmacies.value
                                        ELSE <<NoResults>>, <<url>>)

UpperCase == <<"A", "B", "C", "D", "E", "F", "G", "H", "I", "J", "K", "L", "M",
               "N", "O", "P", "Q", "R", "S", "T", "U", "V", "W", "X", "Y", "Z">>
LowerCase == <<"a", "b", "c", "d", "e", "f", "g", "h", "i", "j", "k", "l", "m",
               "n", "o", "p", "q", "r", "s", "t", "u", "v", "w", "x", "y", "z">>

\* str.lower()
lower(s) ==
    [i \in 1..Len(s) |->
        IF \E k \in 1..26 : UpperCase[k] = s[i]
        THEN LowerCase[CHOOSE k \in 1..26 : UpperCase[k] = s[i]]
        ELSE s[i]]

berlin == <<"b", "e", "r", "l", "i", "n">>
brandenburg == <<"b", "r", "a", "n", "d", "e", "n", "b", "u", "r", "g">>

get_emergency_pharmacies_dispatch_first(plz, state, date, limit, morning_change, now, fetch) ==
    LET given == IF date.type = "NoneType" THEN DatetimeDate(now) ELSE date
        pharmacies == lakbb_get_emergency_pharmacies(plz, given, limit,
                                                     morning_change, now, fetch)
    IN  IF lower(state) \in {berlin, brandenburg}
        THEN pharmacies
        ELSE Raised("NotImplementedError", Some(state), pharmacies.requests)

\* pharmacy.py, lines 160-186; now is what datetime.now() returns if asked
get_emergency_pharmacies(plz, state, date, limit, morning_change, now, fetch) ==
    LET given == IF date.type = "NoneType" THEN DatetimeDate(now) ELSE date
    IN  IF lower(state) \in {berlin, brandenburg}
        THEN lakbb_get_emergency_pharmacies(plz, given, limit, morning_change,
                                            now, fetch)
        ELSE Raised("NotImplementedError", Some(state), <<>>)

(***************************************************************************)
(* One call of either get_emergency_pharmacies.                            *)
(***************************************************************************)
StateNames ==
    { <<"B", "r", "a", "n", "d", "e", "n", "b", "u", "r", "g">>,
      <<"b", "r", "a", "n", "d", "e", "n", "b", "u", "r", "g">>,
      <<"B", "E", "R", "L", "I", "N">>,
      <<"B", "e", "R", "l", "I", "n">>,
      <<"B", "a", "y", "e", "r", "n">>,
      <<"S", "a", "c", "h", "s", "e", "n">> }

\* 2024-06-15 05:00 and 10:00 local time
QueryTimestamps ==
    {LocalMidnight(19889, 7200) + 5 * 3600, LocalMidnight(19889, 7200) + 10 * 3600}

QueryDates ==
    {NoDate} \cup {IntDate(ts) : ts \in QueryTimestamps}
             \cup {DatetimeDate(ts) : ts \in QueryTimestamps}

InitQuery ==
    /\ call \in {[phase |-> "ready", entry |-> "none", plz |-> "14467",
                  state |-> state, date |-> date, limit |-> limit,
                  morning_change |-> mc, now |-> 0, fetch |-> NoFetch,
                  result |-> None] :
                    state \in StateNames, date \in QueryDates,
                    limit \in 0..MaxLimit, mc \in BOOLEAN}
    /\ rec = Idle /\ lastCall = Idle /\ lastCached = Idle
    /\ osm = Idle /\ adj = Idle /\ parse = Idle

\* the clock readings a call can meet: the clock is read for an omitted date
Clock(date) == IF date.type = "NoneType" THEN QueryTimestamps ELSE {0}

\* the fetches a call can meet: a call that requests no URL meets none
Fetched(requests) == IF requests /= <<>> THEN Fetches ELSE {NoFetch}

\* pharmacy.get_emergency_pharmacies(plz, state, date, limit, morning_change)
CallPharmacy ==
    /\ call.phase = "ready"
    /\ \E now \in Clock(call.date) :
         \E fetch \in Fetched(get_emergency_pharmacies(
                                 call.plz, call.state, call.date, call.limit,
                                 call.morning_change, now, NoFetch).requests) :
            call' = [call EXCEPT
                       !.phase = "done", !.entry = "pharmacy",
                       !.now = now, !.fetch = fetch,
                       !.result = Some(get_emergency_pharmacies(
                                          call.plz, call.state, call.date,
                                          call.limit, call.morning_change,
                                          now, fetch))]
    /\ UNCHANGED <<rec, lastCall, lastCached, osm, adj, parse>>

\* lakbb.get_emergency_pharmacies(plz, date, limit, morning_change), with
\* the date its signature takes: None or an int
CallLakbb ==
    /\ call.phase = "ready"
    /\ call.date.type /= "datetime"
    /\ \E now \in Clock(call.date) :
         \E fetch \in Fetched(lakbb_get_emergency_pharmacies(
                                 call.plz, call.date, call.limit,
                                 call.morning_change, now, NoFetch).requests) :
            call' = [call EXCEPT
                       !.phase = "done", !.entry = "lakbb",
                       !.now = now, !.fetch = fetch,
                       !.result = Some(lakbb_get_emergency_pharmacies(
                                          call.plz, call.date, call.limit,
                                          call.morning_change, now, fetch))]
    /\ UNCHANGED <<rec, lastCall, lastCached, osm, adj, parse>>

NextQuery == CallPharmacy \/ CallLakbb

SpecQuery == InitQuery /\ [][NextQuery]_vars

Supported(state) == lower(state) = berlin \/ lower(state) = brandenburg

Outcome == Val(call.result)

\* C1: a call of pharmacy.get_emergency_pharmacies with a supported state,
\* any limit, either morning_change, the date omitted or given, and any
\* outcome of the fetch, does not raise and returns a non-empty list; the
\* unsupported-region condition is the only failure reaching the caller.
C1_SupportedCallReturns ==
    call.phase = "done" /\ call.entry = "pharmacy" =>
        /\ Supported(call.state) =>
              /\ Outcome.raised = "none"
              /\ Outcome.returned
              /\ Outcome.value /= <<>>
        /\ Outcome.raised \in {"none", "NotImplementedError"}

\* C2: for a state that, lower-cased, is neither "berlin" nor "brandenburg",
\* pharmacy.get_emergency_pharmacies raises NotImplementedError naming the
\* given state, returns no list, and requests no URL.
C2_UnsupportedStateRaises ==
    call.phase = "done" /\ call.entry = "pharmacy" /\ ~Supported(call.state) =>
        /\ Outcome.raised = "NotImplementedError"
        /\ Outcome.names = Some(call.state)
        /\ ~Outcome.returned
        /\ Outcome.value = <<>>
        /\ Outcome.requests = <<>>
        /\ call.fetch = NoFetch

C2_BayernRaised ==
    /\ call.phase = "done"
    /\ call.entry = "pharmacy"
    /\ call.state = <<"B", "a", "y", "e", "r", "n">>
    /\ Outcome.raised = "NotImplementedError"

\* C4: when the fetch succeeds and the document has no qualifying row (an
\* empty document included), lakbb.get_emergency_pharmacies returns the one
\* no-results record; the service-unavailable record is returned only when
\* the fetch itself fails.
C4_NoResultsSentinel ==
    call.phase = "done" /\ call.fetch.kind = "ok" /\ Outcome.returned =>
        /\ QualifyingRows(call.fetch.body) = <<>> =>
              /\ Len(Outcome.value) = 1
              /\ Outcome.value[1].name = "Keine Notdienst-Apotheken gefunden"
        /\ Outcome.value[1].name /= "Notdienst nicht verfügbar"

====
